---------------------------- MODULE Spec2Model ----------------------------
(***************************************************************************)
(* Model of covalent_ui/api/v1/routes/end_points/lattice_route.py: the two *)
(* read-only routes get_lattice_details (summary of a dispatch) and        *)
(* get_lattice_files (one named artifact of a dispatch), the scoped        *)
(* Session each of them holds, and the collaborators they call (the        *)
(* Lattices data layer, the FileHandler reader, the response models).      *)
(***************************************************************************)
EXTENDS Integers, Sequences, FiniteSets, TLC

MaxDispatch == 2
MaxRequests == 2

DispatchIds == 1 .. MaxDispatch
Requests == 1 .. MaxRequests

VARIABLES
    lattices,   \* summary store: dispatch id -> row, or None
    storage,    \* storage records: dispatch id -> row, or None
    files,      \* filesystem: <<directory, filename>> -> blob
    pc,         \* per request: "idle", "session", "found", "exit", "done"
    req,        \* per request: the route called and its arguments
    data,       \* per request: the local holding the looked-up row
    reads,      \* per request: the file reads performed so far
    pending,    \* per request: the return value or exception leaving the with block
    sessions    \* number of open Session objects

env == <<lattices, storage, files>>
vars == <<lattices, storage, files, pc, req, data, reads, pending, sessions>>

---------------------------------------------------------------------------
(* Python values.                                                          *)

None == [type |-> "NoneType"]

\* The string holding the text stored in file f of directory d.
PyStr(d, f) == [type |-> "str", dir |-> d, file |-> f, repr |-> FALSE]

\* The object that unpickling file f of directory d yields.
PyObj(d, f) == [type |-> "object", dir |-> d, file |-> f, repr |-> FALSE]

\* str(v): a string is returned as it is, any other object is replaced by
\* its string representation.
str(v) == IF v.type = "str" THEN v ELSE [v EXCEPT !.type = "str", !.repr = TRUE]

Return(v) == [kind |-> "return", value |-> v]
Raise(e) == [kind |-> "raise", error |-> e]
NoResult == [kind |-> "none"]

---------------------------------------------------------------------------
(* The persisted state the routes consume.                                 *)

FileNames ==
    {"result.pkl", "inputs.pkl", "function_string.txt", "executor_data.pkl",
     "workflow_executor_data.pkl", "error.log", "function.pkl",
     "transport_graph.pkl"}

TextFiles == {"function_string.txt", "error.log"}

DirOf(d) == <<"results", d>>
Dirs == {DirOf(d) : d \in DispatchIds}
Paths == Dirs \X FileNames

\* What sits at a path: nothing, text, a pickled object or a pickled string.
Formats == {"absent", "text", "pickle", "pickle_str"}

\* A file written by a finished run: text for the text artifacts, a pickled
\* object for the others.
WrittenFormat(f) == IF f \in TextFiles THEN "text" ELSE "pickle"

AllWritten == [p \in Paths |-> WrittenFormat(p[2])]
AllAbsent == [p \in Paths |-> "absent"]

\* The filesystems considered: every file written, none written, and these
\* two with one path changed.
FileSystems ==
    {AllWritten, AllAbsent}
    \cup {[AllWritten EXCEPT ![p] = b] : p \in Paths, b \in Formats}
    \cup {[AllAbsent EXCEPT ![p] = WrittenFormat(p[2])] : p \in Paths}

Layouts == {"canonical", "permuted"}

\* The storage row of dispatch d. Under the permuted layout every filename
\* column holds the file another column holds under the canonical one.
StorageRow(d, layout) ==
    IF layout = "canonical"
    THEN [directory |-> DirOf(d),
          results_filename |-> "result.pkl",
          inputs_filename |-> "inputs.pkl",
          function_string_filename |-> "function_string.txt",
          executor_data_filename |-> "executor_data.pkl",
          workflow_executor_data_filename |-> "workflow_executor_data.pkl",
          error_filename |-> "error.log",
          function_filename |-> "function.pkl",
          transport_graph_filename |-> "transport_graph.pkl",
          executor |-> <<"executor", d>>,
          workflow_executor |-> <<"workflow_executor", d>>]
    ELSE [directory |-> DirOf(d),
          results_filename |-> "inputs.pkl",
          inputs_filename |-> "executor_data.pkl",
          function_string_filename |-> "error.log",
          executor_data_filename |-> "workflow_executor_data.pkl",
          workflow_executor_data_filename |-> "function.pkl",
          error_filename |-> "function_string.txt",
          function_filename |-> "transport_graph.pkl",
          transport_graph_filename |-> "result.pkl",
          executor |-> <<"executor", d>>,
          workflow_executor |-> <<"workflow_executor", d>>]

DateTime(t) == [type |-> "datetime", t |-> t]

\* The summary row of dispatch d: odd dispatches have completed, even ones
\* are still running and have no end time.
SummaryRow(d) ==
    [dispatch_id |-> d,
     status |-> IF d % 2 = 1 THEN "COMPLETED" ELSE "RUNNING",
     total_electrons |-> d + 1,
     total_electrons_completed |-> IF d % 2 = 1 THEN d + 1 ELSE d - 1,
     start_time |-> DateTime(10 * d),
     end_time |-> IF d % 2 = 1 THEN DateTime(10 * d + 5) ELSE None,
     directory |-> DirOf(d),
     runtime |-> 1000 * d]

SummaryStores ==
    {[d \in DispatchIds |-> IF d \in S THEN SummaryRow(d) ELSE None] :
        S \in SUBSET DispatchIds}

StorageStores ==
    {[d \in DispatchIds |-> IF d \in S THEN StorageRow(d, l) ELSE None] :
        S \in SUBSET DispatchIds, l \in Layouts}

---------------------------------------------------------------------------
(* Collaborators of the routes.                                            *)

\* Lattices(session).get_lattices_id(dispatch_id)
get_lattices_id(dispatch_id) == lattices[dispatch_id]

\* Lattices(session).get_lattices_id_storage_file(dispatch_id)
get_lattices_id_storage_file(dispatch_id) == storage[dispatch_id]

MissingFile(location, path) == [exc |-> "MissingFile", dir |-> location, file |-> path]
DecodeError(location, path) == [exc |-> "DecodeError", dir |-> location, file |-> path]

\* FileHandler(location).read_from_text(path): the text of the file.
read_from_text(location, path) ==
    LET fmt == files[<<location, path>>] IN
    CASE fmt = "absent" -> Raise(MissingFile(location, path))
      [] fmt = "text" -> Return(PyStr(location, path))
      [] OTHER -> Raise(DecodeError(location, path))

\* FileHandler(location).read_from_pickle(path): the unpickled value.
read_from_pickle(location, path) ==
    LET fmt == files[<<location, path>>] IN
    CASE fmt = "absent" -> Raise(MissingFile(location, path))
      [] fmt = "pickle" -> Return(PyObj(location, path))
      [] fmt = "pickle_str" -> Return(PyStr(location, path))
      [] OTHER -> Raise(DecodeError(location, path))

TextRead(location, path) == [dir |-> location, file |-> path, reader |-> "read_from_text"]
PickleRead(location, path) == [dir |-> location, file |-> path, reader |-> "read_from_pickle"]

\* Response models.
LatticeDetailResponse(dispatch_id, status, total_electrons, total_electrons_completed, started_at, ended_at, directory, runtime) ==
    [dispatch_id |-> dispatch_id,
     status |-> status,
     total_electrons |-> total_electrons,
     total_electrons_completed |-> total_electrons_completed,
     started_at |-> started_at,
     ended_at |-> ended_at,
     directory |-> directory,
     runtime |-> runtime]

LatticeFileResponse(d) == [data |-> d]

LatticeExecutorResponse(executor_name, executor_details) ==
    [executor_name |-> executor_name, executor_details |-> executor_details]

LatticeWorkflowExecutorResponse(workflow_executor_name, workflow_executor_details) ==
    [workflow_executor_name |-> workflow_executor_name,
     workflow_executor_details |-> workflow_executor_details]

HTTPException(status_code, detail) ==
    [exc |-> "HTTPException", status_code |-> status_code, detail |-> detail]

\* Variant: the message names no dispatch.
does_not_exist_msg_without_id(dispatch_id) == <<"Dispatch ID ", 0, " does not exist">>

\* f"Dispatch ID {dispatch_id} does not exist"
does_not_exist_msg(dispatch_id) == <<"Dispatch ID ", dispatch_id, " does not exist">>

\* The exception both routes raise when the lookup returns None.
dispatch_id_not_found(dispatch_id) ==
    HTTPException(400, <<[loc |-> <<"path", "dispatch_id">>,
                          msg |-> does_not_exist_msg(dispatch_id),
                          type |-> None]>>)

---------------------------------------------------------------------------
(* get_lattice_details: the code run inside the with block.                *)

\* Variant: the two timestamps exchanged.
get_lattice_details_response_swapped(d) ==
    LatticeDetailResponse(d.dispatch_id, d.status, d.total_electrons,
                          d.total_electrons_completed, d.end_time, d.start_time,
                          d.directory, d.runtime)

get_lattice_details_response(d) ==
    LatticeDetailResponse(d.dispatch_id, d.status, d.total_electrons,
                          d.total_electrons_completed, d.start_time, d.end_time,
                          d.directory, d.runtime)

get_lattice_details_body(dispatch_id) ==
    LET d == get_lattices_id(dispatch_id) IN
    IF d # None
    THEN Return(get_lattice_details_response(d))
    ELSE Raise(dispatch_id_not_found(dispatch_id))

---------------------------------------------------------------------------
(* get_lattice_files: one operator per branch of the chain on name. Each   *)
(* yields the file reads it performs and the way it leaves the function:   *)
(* an exception raised by the reader is not caught and leaves with it.     *)

Unrecognized == {"bogus", "info"}

FileOutput ==
    {"result", "inputs", "function_string", "executor", "workflow_executor",
     "error", "function", "transport_graph"} \cup Unrecognized

files_result(lattice_data) ==
    LET response == read_from_pickle(lattice_data.directory, lattice_data.results_filename) IN
    [reads |-> <<PickleRead(lattice_data.directory, lattice_data.results_filename)>>,
     outcome |-> IF response.kind = "raise" THEN response
                 ELSE Return(LatticeFileResponse(str(response.value)))]

\* Variant: the inputs branch reads the results column.
files_inputs_results_column(lattice_data) ==
    LET response == read_from_pickle(lattice_data.directory, lattice_data.results_filename) IN
    [reads |-> <<PickleRead(lattice_data.directory, lattice_data.results_filename)>>,
     outcome |-> IF response.kind = "raise" THEN response
                 ELSE Return(LatticeFileResponse(response.value))]

files_inputs(lattice_data) ==
    LET response == read_from_pickle(lattice_data.directory, lattice_data.inputs_filename) IN
    [reads |-> <<PickleRead(lattice_data.directory, lattice_data.inputs_filename)>>,
     outcome |-> IF response.kind = "raise" THEN response
                 ELSE Return(LatticeFileResponse(response.value))]

\* Variant: the function_string branch reads the error file first.
files_function_string_two_reads(lattice_data) ==
    LET first == read_from_text(lattice_data.directory, lattice_data.error_filename)
        response == read_from_text(lattice_data.directory, lattice_data.function_string_filename)
    IN
    IF first.kind = "raise"
    THEN [reads |-> <<TextRead(lattice_data.directory, lattice_data.error_filename)>>,
          outcome |-> first]
    ELSE [reads |-> <<TextRead(lattice_data.directory, lattice_data.error_filename),
                      TextRead(lattice_data.directory, lattice_data.function_string_filename)>>,
          outcome |-> IF response.kind = "raise" THEN response
                      ELSE Return(LatticeFileResponse(response.value))]

files_function_string(lattice_data) ==
    LET response == read_from_text(lattice_data.directory, lattice_data.function_string_filename) IN
    [reads |-> <<TextRead(lattice_data.directory, lattice_data.function_string_filename)>>,
     outcome |-> IF response.kind = "raise" THEN response
                 ELSE Return(LatticeFileResponse(response.value))]

files_executor(lattice_data) ==
    LET executor_name == lattice_data.executor
        executor_data == read_from_pickle(lattice_data.directory, lattice_data.executor_data_filename)
    IN
    [reads |-> <<PickleRead(lattice_data.directory, lattice_data.executor_data_filename)>>,
     outcome |-> IF executor_data.kind = "raise" THEN executor_data
                 ELSE Return(LatticeExecutorResponse(executor_name, executor_data.value))]

\* Variant: the workflow_executor branch takes the executor's name.
files_workflow_executor_executor_name(lattice_data) ==
    LET executor_name == lattice_data.executor
        executor_data == read_from_pickle(lattice_data.directory, lattice_data.workflow_executor_data_filename)
    IN
    [reads |-> <<PickleRead(lattice_data.directory, lattice_data.workflow_executor_data_filename)>>,
     outcome |-> IF executor_data.kind = "raise" THEN executor_data
                 ELSE Return(LatticeWorkflowExecutorResponse(executor_name, executor_data.value))]

files_workflow_executor(lattice_data) ==
    LET executor_name == lattice_data.workflow_executor
        executor_data == read_from_pickle(lattice_data.directory, lattice_data.workflow_executor_data_filename)
    IN
    [reads |-> <<PickleRead(lattice_data.directory, lattice_data.workflow_executor_data_filename)>>,
     outcome |-> IF executor_data.kind = "raise" THEN executor_data
                 ELSE Return(LatticeWorkflowExecutorResponse(executor_name, executor_data.value))]

\* Variant: the error branch catches the reader's exception and answers
\* with no data.
files_error_caught(lattice_data) ==
    LET response == read_from_text(lattice_data.directory, lattice_data.error_filename) IN
    [reads |-> <<TextRead(lattice_data.directory, lattice_data.error_filename)>>,
     outcome |-> IF response.kind = "raise" THEN Return(LatticeFileResponse(None))
                 ELSE Return(LatticeFileResponse(response.value))]

files_error(lattice_data) ==
    LET response == read_from_text(lattice_data.directory, lattice_data.error_filename) IN
    [reads |-> <<TextRead(lattice_data.directory, lattice_data.error_filename)>>,
     outcome |-> IF response.kind = "raise" THEN response
                 ELSE Return(LatticeFileResponse(response.value))]

\* Variant: the function branch converts the value as the result branch does.
files_function_str(lattice_data) ==
    LET response == read_from_pickle(lattice_data.directory, lattice_data.function_filename) IN
    [reads |-> <<PickleRead(lattice_data.directory, lattice_data.function_filename)>>,
     outcome |-> IF response.kind = "raise" THEN response
                 ELSE Return(LatticeFileResponse(str(response.value)))]

files_function(lattice_data) ==
    LET response == read_from_pickle(lattice_data.directory, lattice_data.function_filename) IN
    [reads |-> <<PickleRead(lattice_data.directory, lattice_data.function_filename)>>,
     outcome |-> IF response.kind = "raise" THEN response
                 ELSE Return(LatticeFileResponse(response.value))]

files_transport_graph(lattice_data) ==
    LET response == read_from_pickle(lattice_data.directory, lattice_data.transport_graph_filename) IN
    [reads |-> <<PickleRead(lattice_data.directory, lattice_data.transport_graph_filename)>>,
     outcome |-> IF response.kind = "raise" THEN response
                 ELSE Return(LatticeFileResponse(response.value))]

\* Variant: the last comparison is an else, so any other name is served as
\* transport_graph.
files_else_transport_graph(lattice_data) == files_transport_graph(lattice_data)

files_else(lattice_data) ==
    [reads |-> <<>>, outcome |-> Return(LatticeFileResponse(None))]

\* The chain of comparisons on name, taken when lattice_data is not None.
get_lattice_files_found(name, lattice_data) ==
    CASE name = "result" -> files_result(lattice_data)
      [] name = "inputs" -> files_inputs(lattice_data)
      [] name = "function_string" -> files_function_string(lattice_data)
      [] name = "executor" -> files_executor(lattice_data)
      [] name = "workflow_executor" -> files_workflow_executor(lattice_data)
      [] name = "error" -> files_error(lattice_data)
      [] name = "function" -> files_function(lattice_data)
      [] name = "transport_graph" -> files_transport_graph(lattice_data)
      [] OTHER -> files_else(lattice_data)

\* The code after the lookup: the test of lattice_data and what follows it.
get_lattice_files_body(dispatch_id, name, lattice_data) ==
    IF lattice_data # None
    THEN get_lattice_files_found(name, lattice_data)
    ELSE [reads |-> <<>>, outcome |-> Raise(dispatch_id_not_found(dispatch_id))]

\* Variant: lattice_data is a module-level name that every request assigns.
assign_lattice_data_global(locals, r, value) == [q \in DOMAIN locals |-> value]

\* lattice_data is a local of the call: each request has its own.
assign_lattice_data(locals, r, value) == [locals EXCEPT ![r] = value]

---------------------------------------------------------------------------
(* The Session context manager.                                            *)

\* with Session(engine) as session: entering opens a session.
Session_enter(n) == n + 1

\* Variant: the session is closed by a call after the block's last
\* statement, which an exception skips.
Session_exit_on_return(n, how) == IF how.kind = "raise" THEN n ELSE n - 1

\* Leaving the with block closes the session, whether the block is left by a
\* return or by an exception.
Session_exit(n, how) == n - 1

---------------------------------------------------------------------------
(* Requests.                                                               *)

NoRequest == [op |-> "none", dispatch_id |-> 0, name |-> ""]

TypeOK ==
    /\ lattices \in SummaryStores
    /\ storage \in StorageStores
    /\ files \in [Paths -> Formats]
    /\ pc \in [Requests -> {"idle", "session", "fetched", "exit", "done"}]
    /\ sessions \in Nat

InitRequests ==
    /\ pc = [r \in Requests |-> "idle"]
    /\ req = [r \in Requests |-> NoRequest]
    /\ data = [r \in Requests |-> None]
    /\ reads = [r \in Requests |-> <<>>]
    /\ pending = [r \in Requests |-> NoResult]
    /\ sessions = 0

Known(store) == {d \in DispatchIds : store[d] # None}

\* Any summary store, storage store and filesystem of the families above;
\* the two stores know the same dispatches unless every file is written.
Init ==
    /\ lattices \in SummaryStores
    /\ storage \in StorageStores
    /\ files \in FileSystems
    /\ files = AllWritten \/ Known(lattices) = Known(storage)
    /\ InitRequests

\* A client calls GET /{dispatch_id}: the route enters its with block.
Call_get_lattice_details(r, dispatch_id) ==
    /\ pc[r] = "idle"
    /\ req' = [req EXCEPT ![r] = [op |-> "details", dispatch_id |-> dispatch_id, name |-> ""]]
    /\ sessions' = Session_enter(sessions)
    /\ pc' = [pc EXCEPT ![r] = "session"]
    /\ UNCHANGED <<env, data, reads, pending>>

\* A client calls GET /{dispatch_id}/details/{name}.
Call_get_lattice_files(r, dispatch_id, name) ==
    /\ pc[r] = "idle"
    /\ req' = [req EXCEPT ![r] = [op |-> "files", dispatch_id |-> dispatch_id, name |-> name]]
    /\ sessions' = Session_enter(sessions)
    /\ pc' = [pc EXCEPT ![r] = "session"]
    /\ UNCHANGED <<env, data, reads, pending>>

\* get_lattice_details: the lookup and the response or exception built from it.
Run_get_lattice_details(r) ==
    /\ pc[r] = "session"
    /\ req[r].op = "details"
    /\ pending' = [pending EXCEPT ![r] = get_lattice_details_body(req[r].dispatch_id)]
    /\ pc' = [pc EXCEPT ![r] = "exit"]
    /\ UNCHANGED <<env, req, data, reads, sessions>>

\* get_lattice_files: the lookup of the storage row.
Lookup_get_lattice_files(r) ==
    /\ pc[r] = "session"
    /\ req[r].op = "files"
    /\ data' = assign_lattice_data(data, r, get_lattices_id_storage_file(req[r].dispatch_id))
    /\ pc' = [pc EXCEPT ![r] = "fetched"]
    /\ UNCHANGED <<env, req, reads, pending, sessions>>

\* get_lattice_files: the test of lattice_data, the branch for name and its
\* file read.
Read_get_lattice_files(r) ==
    /\ pc[r] = "fetched"
    /\ LET step == get_lattice_files_body(req[r].dispatch_id, req[r].name, data[r]) IN
        /\ reads' = [reads EXCEPT ![r] = step.reads]
        /\ pending' = [pending EXCEPT ![r] = step.outcome]
    /\ pc' = [pc EXCEPT ![r] = "exit"]
    /\ UNCHANGED <<env, req, data, sessions>>

\* The with block is left and the caller gets the response or the exception.
Session_leave(r) ==
    /\ pc[r] = "exit"
    /\ sessions' = Session_exit(sessions, pending[r])
    /\ pc' = [pc EXCEPT ![r] = "done"]
    /\ UNCHANGED <<env, req, data, reads, pending>>

\* The request is over and its frame is gone.
Finish(r) ==
    /\ pc[r] = "done"
    /\ pc' = [pc EXCEPT ![r] = "idle"]
    /\ req' = [req EXCEPT ![r] = NoRequest]
    /\ data' = [data EXCEPT ![r] = None]
    /\ reads' = [reads EXCEPT ![r] = <<>>]
    /\ pending' = [pending EXCEPT ![r] = NoResult]
    /\ UNCHANGED <<env, sessions>>

\* Requests served one at a time.
Serial == {1}

Next ==
    \/ \E r \in Serial, d \in DispatchIds : Call_get_lattice_details(r, d)
    \/ \E r \in Serial, d \in DispatchIds, name \in FileOutput : Call_get_lattice_files(r, d, name)
    \/ \E r \in Serial : Run_get_lattice_details(r)
    \/ \E r \in Serial : Lookup_get_lattice_files(r)
    \/ \E r \in Serial : Read_get_lattice_files(r)
    \/ \E r \in Serial : Session_leave(r)
    \/ \E r \in Serial : Finish(r)

Spec == Init /\ [][Next]_vars

---------------------------------------------------------------------------
(* Concurrent requests. The routes are plain functions, which the server   *)
(* runs on worker threads: every request slot serves requests, and the     *)
(* steps of different requests interleave.                                 *)

\* The artifacts asked for by the concurrent clients.
ConcurrentNames == {"executor", "bogus"}

StoresKnowing(S) ==
    /\ lattices = [d \in DispatchIds |-> IF d \in S THEN SummaryRow(d) ELSE None]
    /\ storage = [d \in DispatchIds |-> IF d \in S THEN StorageRow(d, "canonical") ELSE None]

InitConcurrent ==
    /\ StoresKnowing({1}) \/ StoresKnowing(DispatchIds)
    /\ files \in {AllWritten, AllAbsent}
    /\ InitRequests

NextConcurrent ==
    \/ \E r \in Requests, d \in DispatchIds : Call_get_lattice_details(r, d)
    \/ \E r \in Requests, d \in DispatchIds, name \in ConcurrentNames : Call_get_lattice_files(r, d, name)
    \/ \E r \in Requests : Run_get_lattice_details(r)
    \/ \E r \in Requests : Lookup_get_lattice_files(r)
    \/ \E r \in Requests : Read_get_lattice_files(r)
    \/ \E r \in Requests : Session_leave(r)
    \/ \E r \in Requests : Finish(r)

SpecConcurrent == InitConcurrent /\ [][NextConcurrent]_vars

\* The exception of a lookup that fails (the store cannot be reached).
StoreError == [exc |-> "OperationalError"]

\* The lookup of either route raises instead of returning.
Lookup_raises(r) ==
    /\ pc[r] = "session"
    /\ pending' = [pending EXCEPT ![r] = Raise(StoreError)]
    /\ pc' = [pc EXCEPT ![r] = "exit"]
    /\ UNCHANGED <<env, req, data, reads, sessions>>

NextFaulty ==
    \/ NextConcurrent
    \/ \E r \in Requests : Lookup_raises(r)

SpecFaulty == InitConcurrent /\ [][NextFaulty]_vars

---------------------------------------------------------------------------
(* Properties. The table below is the dispatch table of the design: for    *)
(* each recognized artifact kind, the column of the storage row naming its *)
(* file and the reader used.                                               *)

Recognized ==
    {"result", "inputs", "function_string", "executor", "workflow_executor",
     "error", "function", "transport_graph"}

SimpleKinds == {"result", "inputs", "function_string", "error", "function", "transport_graph"}

FilenameField ==
    [k \in Recognized |->
        CASE k = "result" -> "results_filename"
          [] k = "inputs" -> "inputs_filename"
          [] k = "function_string" -> "function_string_filename"
          [] k = "executor" -> "executor_data_filename"
          [] k = "workflow_executor" -> "workflow_executor_data_filename"
          [] k = "error" -> "error_filename"
          [] k = "function" -> "function_filename"
          [] k = "transport_graph" -> "transport_graph_filename"]

ReaderOf ==
    [k \in Recognized |->
        IF k \in {"function_string", "error"} THEN "read_from_text" ELSE "read_from_pickle"]

\* The completed requests.
DetailsDone(r) == pc[r] = "done" /\ req[r].op = "details"
FilesDone(r) == pc[r] = "done" /\ req[r].op = "files"

\* A completed request for a recognized artifact of a dispatch with a storage row.
ArtifactDone(r) ==
    /\ FilesDone(r)
    /\ req[r].name \in Recognized
    /\ storage[req[r].dispatch_id] # None

RowOf(r) == storage[req[r].dispatch_id]

\* The file the table names for the request, and what the table's reader
\* yields for it.
OwnFile(r) == RowOf(r)[FilenameField[req[r].name]]
OwnPath(r) == <<RowOf(r).directory, OwnFile(r)>>
OwnRead(r) ==
    IF ReaderOf[req[r].name] = "read_from_text"
    THEN read_from_text(RowOf(r).directory, OwnFile(r))
    ELSE read_from_pickle(RowOf(r).directory, OwnFile(r))

Raised(r, exc) == pending[r].kind = "raise" /\ pending[r].error.exc = exc

\* C1: a request for a recognized artifact of a dispatch with a storage row
\* performs exactly one file read: of the file named by the kind's own
\* filename column, in the row's directory, with read_from_text for
\* function_string and error and read_from_pickle for the other six.
C1_OneReadOfOwnFile ==
    \A r \in Requests :
        ArtifactDone(r) =>
            reads[r] = <<[dir |-> RowOf(r).directory,
                          file |-> OwnFile(r),
                          reader |-> ReaderOf[req[r].name]]>>

\* A served transport_graph request under the permuted layout, where the
\* column holds the file the results column holds under the canonical one.
C1_Witness ==
    \E r \in Requests :
        /\ ArtifactDone(r)
        /\ req[r].name = "transport_graph"
        /\ Len(reads[r]) = 1
        /\ reads[r][1].file = "result.pkl"

\* C2: for a dispatch with a storage row, a name outside the eight
\* recognized kinds is answered with {data: null} and never with an error.
C2_UnrecognizedIsNullData ==
    \A r \in Requests :
        (FilesDone(r) /\ storage[req[r].dispatch_id] # None /\ req[r].name \notin Recognized)
            => pending[r] = Return([data |-> None])

C2_Witness ==
    \E r \in Requests :
        /\ FilesDone(r)
        /\ storage[req[r].dispatch_id] # None
        /\ req[r].name = "bogus"
        /\ pending[r].kind = "return"

\* The error both routes answer an unknown dispatch with.
IsNotFound(out, dispatch_id) ==
    /\ out.kind = "raise"
    /\ out.error.exc = "HTTPException"
    /\ Len(out.error.detail) = 1
    /\ out.error.detail[1].loc = <<"path", "dispatch_id">>
    /\ out.error.detail[1].msg = <<"Dispatch ID ", dispatch_id, " does not exist">>
    /\ out.error.detail[1].type = None

\* C3: a summary request for a dispatch the summary store does not hold, and
\* an artifact request (any name) for a dispatch the storage store does not
\* hold, fail with the error located at ["path", "dispatch_id"] whose message
\* is "Dispatch ID <id> does not exist" with the requested identifier.
C3_AbsentIsNotFound ==
    \A r \in Requests :
        /\ (DetailsDone(r) /\ lattices[req[r].dispatch_id] = None)
               => IsNotFound(pending[r], req[r].dispatch_id)
        /\ (FilesDone(r) /\ storage[req[r].dispatch_id] = None)
               => IsNotFound(pending[r], req[r].dispatch_id)

\* Dispatch 2 is unknown, dispatch 1 is known, and a request for dispatch 2
\* has been refused.
C3_Witness ==
    \E r \in Requests :
        /\ pc[r] = "done"
        /\ req[r].dispatch_id = 2
        /\ lattices[2] = None /\ storage[2] = None
        /\ lattices[1] # None /\ storage[1] # None
        /\ pending[r].kind = "raise"

\* C4 as stated: for each of the six simple kinds, a successful read is
\* answered with {data: v}, v being the reader's value unchanged.
C4_Original ==
    \A r \in Requests :
        (ArtifactDone(r) /\ req[r].name \in SimpleKinds /\ OwnRead(r).kind = "return")
            => pending[r] = Return([data |-> OwnRead(r).value])

\* C4, amended: for inputs, function_string, error, function and
\* transport_graph a successful read is answered with {data: v}, v being the
\* reader's value unchanged; for result it is answered with {data: str(v)},
\* which is v itself only when v is a string.
C4_DataIsReaderValue ==
    \A r \in Requests :
        (ArtifactDone(r) /\ req[r].name \in SimpleKinds /\ OwnRead(r).kind = "return")
            => pending[r] =
                 Return([data |-> IF req[r].name = "result"
                                  THEN [type |-> "str",
                                        dir |-> OwnRead(r).value.dir,
                                        file |-> OwnRead(r).value.file,
                                        repr |-> OwnRead(r).value.type # "str"]
                                  ELSE OwnRead(r).value])

\* A result request and a function request, each answered from a pickled object.
C4_Witness ==
    \E r \in Requests :
        /\ ArtifactDone(r)
        /\ req[r].name \in {"result", "function"}
        /\ OwnRead(r).kind = "return"
        /\ OwnRead(r).value.type = "object"
        /\ pending[r].kind = "return"

\* C5: executor is answered with the row's executor name and the value
\* decoded from executor_data_filename, workflow_executor with the row's
\* workflow executor name and the value decoded from
\* workflow_executor_data_filename.
C5_ExecutorResponses ==
    \A r \in Requests :
        (ArtifactDone(r) /\ OwnRead(r).kind = "return") =>
            /\ req[r].name = "executor" =>
                 pending[r] = Return([executor_name |-> RowOf(r).executor,
                                      executor_details |-> OwnRead(r).value])
            /\ req[r].name = "workflow_executor" =>
                 pending[r] = Return([workflow_executor_name |-> RowOf(r).workflow_executor,
                                      workflow_executor_details |-> OwnRead(r).value])

C5_Witness ==
    \E r \in Requests :
        /\ ArtifactDone(r)
        /\ req[r].name = "workflow_executor"
        /\ pending[r].kind = "return"
        /\ RowOf(r).executor # RowOf(r).workflow_executor

\* C6: a summary request for a dispatch the summary store holds succeeds,
\* and every field of the payload is the same field of the stored row of
\* that dispatch.
C6_SummaryEqualsRow ==
    \A r \in Requests :
        (DetailsDone(r) /\ lattices[req[r].dispatch_id] # None) =>
            LET row == lattices[req[r].dispatch_id] IN
            /\ row.dispatch_id = req[r].dispatch_id
            /\ pending[r] = Return([dispatch_id |-> row.dispatch_id,
                                    status |-> row.status,
                                    total_electrons |-> row.total_electrons,
                                    total_electrons_completed |-> row.total_electrons_completed,
                                    started_at |-> row.start_time,
                                    ended_at |-> row.end_time,
                                    directory |-> row.directory,
                                    runtime |-> row.runtime])

\* Both dispatches are known and the summary of dispatch 2, which is still
\* running, has been returned.
C6_Witness ==
    \E r \in Requests :
        /\ DetailsDone(r)
        /\ req[r].dispatch_id = 2
        /\ lattices[1] # None /\ lattices[2] # None
        /\ pending[r].kind = "return"
        /\ pending[r].value.ended_at = None

InFlight == {r \in Requests : pc[r] \in {"session", "fetched", "exit"}}

\* C7: every request releases its session on every way out (a response, the
\* unknown-dispatch error, null data for an unrecognized name, an exception
\* of the lookup or of a file read): the open sessions never outnumber the
\* requests in flight, so none is open once every request has completed.
C7_SessionsReleased ==
    /\ sessions \in Nat
    /\ sessions <= Cardinality(InFlight)

\* Two requests have completed, one by an exception of the lookup and one by
\* an exception of the file read, and no request is in flight.
C7_Witness ==
    \E r1, r2 \in Requests :
        /\ pc[r1] = "done" /\ Raised(r1, "OperationalError")
        /\ pc[r2] = "done" /\ Raised(r2, "MissingFile")
        /\ InFlight = {}
        /\ sessions = 0

\* C8: when the storage row exists and the file of the requested recognized
\* kind is absent, the request ends with the reader's MissingFile error: not
\* with a response and not with the unknown-dispatch error.
C8_AbsentFileIsMissingFile ==
    \A r \in Requests :
        (ArtifactDone(r) /\ files[OwnPath(r)] = "absent") =>
            /\ Raised(r, "MissingFile")
            /\ pending[r].error.file = OwnFile(r)

C8_Witness ==
    \E r \in Requests :
        /\ ArtifactDone(r)
        /\ req[r].name = "error"
        /\ files[OwnPath(r)] = "absent"
        /\ pending[r].kind = "raise"

\* The formats the table's reader of a kind decodes.
Decodable(k) == IF ReaderOf[k] = "read_from_text" THEN {"text"} ELSE {"pickle", "pickle_str"}

\* C9: the outcome of a request for a recognized kind depends on the kind's
\* own file alone: it touches no other file, it fails with MissingFile
\* exactly when its own file is absent, and it succeeds whenever its own
\* file is decodable, whatever the other files of the directory are.
C9_OnlyOwnFileMatters ==
    \A r \in Requests :
        ArtifactDone(r) =>
            /\ \A i \in 1 .. Len(reads[r]) : <<reads[r][i].dir, reads[r][i].file>> = OwnPath(r)
            /\ Raised(r, "MissingFile") <=> files[OwnPath(r)] = "absent"
            /\ files[OwnPath(r)] \in Decodable(req[r].name) => pending[r].kind = "return"

\* A function_string request answered although every other file of the
\* directory is absent.
C9_Witness ==
    \E r \in Requests :
        /\ ArtifactDone(r)
        /\ req[r].name = "function_string"
        /\ pending[r].kind = "return"
        /\ \A f \in FileNames \ {OwnFile(r)} : files[<<RowOf(r).directory, f>>] = "absent"

\* What a request yields when it runs alone against the stores and files.
RunAlone(q) ==
    IF q.op = "details"
    THEN [reads |-> <<>>, outcome |-> get_lattice_details_body(q.dispatch_id)]
    ELSE get_lattice_files_body(q.dispatch_id, q.name, get_lattices_id_storage_file(q.dispatch_id))

\* C10: no step of a request changes the summary store, the storage rows or
\* the files, and under any interleaving every request ends with the
\* outcome, and performs the reads, it has when run alone against them.
C10_ReadOnlyAndIndependent ==
    /\ [][lattices' = lattices /\ storage' = storage /\ files' = files]_vars
    /\ [](\A r \in Requests :
            pc[r] \in {"exit", "done"} =>
                /\ pending[r] = RunAlone(req[r]).outcome
                /\ reads[r] = RunAlone(req[r]).reads)

\* Two artifact requests for different dispatches have both run their body
\* and are both still inside their with block.
C10_Witness ==
    \E r1, r2 \in Requests :
        /\ pc[r1] = "exit" /\ pc[r2] = "exit"
        /\ req[r1].op = "files" /\ req[r2].op = "files"
        /\ req[r1].dispatch_id # req[r2].dispatch_id
        /\ pending[r1].kind = "return"

=============================================================================
